---------------------------- MODULE Spec2Model ----------------------------
(***************************************************************************)
(* Model of the betting-house ranking utilities of alts-digital:           *)
(*   bookmarkers/src/eda/data_processing.py  preprocess_dataframe          *)
(*   bookmarkers/src/eda/visualization.py    calculate_position_variation, *)
(*       get_top_movers, calculate_position_and_visit_variation            *)
(*                                                                         *)
(* A DataFrame is a record [cols, rows]: cols is the set of column labels, *)
(* rows the sequence of rows in index order, each row a function from the  *)
(* column labels to the cell.  A raw cell is a record [k, v]: k = "num"    *)
(* for a number v, k = "str" for text that is no number, k = "nan" for a   *)
(* missing value.  After the null/zero filter every month cell is a number *)
(* and is stored as the integer itself.                                    *)
(***************************************************************************)
EXTENDS Integers, Sequences, FiniteSets, TLC

VARIABLES raw, df, out, err, phase

vars == <<raw, df, out, err, phase>>

\* ------------------------------------------------------------------ bounds

\* Largest number of rows of an input table.
MaxRows == 3

\* Largest monthly visit count of an input table (visits are 1..MaxVisits).
MaxVisits == 2

\* Largest number of unusable (null, zero, non-numeric) cells of an input table.
MaxInvalid == 1

\* Largest top_n passed to get_top_movers.
MaxTopN == 2

\* Largest number of rows of a ranked table given directly to
\* calculate_position_variation.
MaxRankedRows == 3

\* The matches of a results table, the goals a team scores in a match, and
\* the largest last_n_games.
MaxMatches == 2
MaxGoals == 1
MaxLastN == 1

\* The rows of a ranked table that was not filtered.
MaxUnfilteredRows == 2

\* The rows of the table a session of calls works on.
MaxSessionRows == 2

\* The rows and the largest visit count of the tables
\* identify_sustained_growth_brands is given.
MaxGrowthRows == 2
MaxGrowthVisits == 3

\* ------------------------------------------------------- columns and cells

\* months, data_processing.py line 13.
months == <<"may", "june", "july", "august">>

MonthSet == {months[i] : i \in 1..Len(months)}

\* The labels of the input file, before the renaming of lines 15-25 (written
\* without their diacritics).
RawMonths == <<"Maio", "Junho", "Julho", "Agosto">>

\* df.rename(columns={...}), lines 15-24: a label the mapping does not know
\* is kept.
RenameColumn(c) ==
    CASE c = "Casa de apostas" -> "betting_house"
      [] c = "Marco" -> "march"
      [] c = "Abril" -> "april"
      [] c = "Maio" -> "may"
      [] c = "Junho" -> "june"
      [] c = "Julho" -> "july"
      [] c = "Agosto" -> "august"
      [] OTHER -> c

\* The rank column of a month: "rank_" + month.
RankCol(m) ==
    CASE m = "may" -> "rank_may"
      [] m = "june" -> "rank_june"
      [] m = "july" -> "rank_july"
      [] m = "august" -> "rank_august"

\* The rank-change column of the pair of months starting at months[i].
RankChangeCol(i) ==
    CASE i = 1 -> "rank_change_may_june"
      [] i = 2 -> "rank_change_june_july"
      [] i = 3 -> "rank_change_july_august"

\* The column f"position_variation_{ranking_columns[i]}_{ranking_columns[i+1]}"
\* when ranking_columns are the four rank columns.
PositionVariationCol(i) ==
    CASE i = 1 -> "position_variation_rank_may_rank_june"
      [] i = 2 -> "position_variation_rank_june_rank_july"
      [] i = 3 -> "position_variation_rank_july_rank_august"

\* The column f"visit_variation_{visit_columns[i]}_{visit_columns[i+1]}".
VisitVariationCol(i) ==
    CASE i = 1 -> "visit_variation_may_june"
      [] i = 2 -> "visit_variation_june_july"
      [] i = 3 -> "visit_variation_july_august"

Num(n) == [k |-> "num", v |-> n]

NaN == [k |-> "nan", v |-> 0]

Text == [k |-> "str", v |-> 0]

\* The name of the entity of row i of an input table.
House(i) ==
    CASE i = 1 -> "A"
      [] i = 2 -> "B"
      [] i = 3 -> "C"
      [] i = 4 -> "D"
      [] OTHER -> "E"

EmptyFrame == [cols |-> {}, rows |-> <<>>]

NoResult == [op |-> "none", arg |-> EmptyFrame, n |-> 0, value |-> EmptyFrame]

Abs(x) == IF x < 0 THEN -x ELSE x

\* ------------------------------------------------------ pandas primitives

\* pd.to_numeric(..., errors="coerce") on one cell: text that is no number
\* becomes NaN.
ToNumeric(cell) == IF cell.k = "num" THEN cell ELSE NaN

\* A row with column c set to x (the column is added when absent).
WithCol(row, c, x) ==
    [d \in DOMAIN row \cup {c} |-> IF d = c THEN x ELSE row[d]]

\* A row restricted to the columns cs.
Project(row, cs) == [d \in cs |-> row[d]]

\* Series.sort_values(ascending=False) on a list of numbers, by insertion:
\* Insert puts x after every element that is >= x.
RECURSIVE InsertDesc(_, _)
InsertDesc(s, x) ==
    IF s = <<>> THEN <<x>>
    ELSE IF Head(s) >= x THEN <<Head(s)>> \o InsertDesc(Tail(s), x)
    ELSE <<x>> \o s

RECURSIVE SortDesc(_)
SortDesc(s) ==
    IF s = <<>> THEN <<>>
    ELSE InsertDesc(SortDesc(SubSeq(s, 1, Len(s) - 1)), s[Len(s)])

\* The first position of x in s.
RECURSIVE FirstPos(_, _)
FirstPos(s, x) == IF Head(s) = x THEN 1 ELSE 1 + FirstPos(Tail(s), x)

\* The last position of x in s.
LastPos(s, x) == CHOOSE i \in 1..Len(s) : s[i] = x /\ \A j \in (i+1)..Len(s) : s[j] # x

\* Series.rank(method="max", ascending=False): ties share the largest position.
RankMax(vals) ==
    LET sorted == SortDesc(vals)
    IN  [i \in 1..Len(vals) |-> LastPos(sorted, vals[i])]

\* Series.rank(method="min", ascending=False).astype(int): order the values
\* from the largest down; a value's rank is the first position it holds, so
\* equal values share the smallest of their positions.
Rank(vals) ==
    LET sorted == SortDesc(vals)
    IN  [i \in 1..Len(vals) |-> FirstPos(sorted, vals[i])]

\* The column c of a table, as the list of its cells.
Column(rows, c) == [i \in 1..Len(rows) |-> rows[i][c]]


RECURSIVE GCD(_, _)
GCD(a, b) == IF b = 0 THEN a ELSE GCD(b, a % b)

\* The exact value n / d of a float expression (d >= 0), in lowest terms;
\* as numpy divides, n / 0 is inf (1/0), -inf (-1/0) or NaN (0/0).
Ratio(n, d) ==
    IF n = 0 /\ d = 0 THEN [num |-> 0, den |-> 0]
    ELSE LET g == GCD(Abs(n), d)
         IN  [num |-> n \div g, den |-> d \div g]

\* ------------------------------------------ preprocess_dataframe, by step

\* Lines 15-25: rename(columns=...) then drop(["Top"], errors="ignore").
Renamed(t) ==
    LET cs == {RenameColumn(c) : c \in t.cols} \ {"Top"}
        old(d) == CHOOSE c \in t.cols : RenameColumn(c) = d
    IN  [cols |-> cs,
         rows |-> [i \in 1..Len(t.rows) |-> [d \in cs |-> t.rows[i][old(d)]]]]

\* Line 28: df[months] = df[months].apply(pd.to_numeric, errors="coerce").
Coerced(t) ==
    [cols |-> t.cols,
     rows |-> [i \in 1..Len(t.rows) |->
                 [d \in t.cols |->
                    IF d \in MonthSet THEN ToNumeric(t.rows[i][d]) ELSE t.rows[i][d]]]]

\* Line 31: drop(columns=["march", "april"], errors="ignore").
WithoutSpring(t) ==
    LET cs == t.cols \ {"march", "april"}
    IN  [cols |-> cs, rows |-> [i \in 1..Len(t.rows) |-> Project(t.rows[i], cs)]]

\* Line 34: df.dropna(subset=months).
DropNa(rows) ==
    SelectSeq(rows, LAMBDA row : \A m \in MonthSet : row[m].k # "nan")

\* Line 35 with the filter forgotten: every row is kept.
KeepAll(rows) == rows

\* Line 35 with .any(axis=1) for .all(axis=1).
KeepAnyPositive(rows) ==
    SelectSeq(rows, LAMBDA row : \A m \in MonthSet : row[m].k = "num"
                                 /\ \E m2 \in MonthSet : row[m2].v > 0)

\* Line 35: df[(df[months] > 0).all(axis=1)].reset_index(drop=True); a
\* comparison with NaN is False.
KeepPositive(rows) ==
    SelectSeq(rows, LAMBDA row : \A m \in MonthSet : row[m].k = "num" /\ row[m].v > 0)

\* Lines 33-35 with the rows that pass in reverse order.
FilteredReversed(t) ==
    LET kept == KeepPositive(DropNa(t.rows))
    IN  [cols |-> t.cols,
         rows |-> [i \in 1..Len(kept) |->
                     LET row == kept[Len(kept) + 1 - i]
                     IN  [d \in t.cols |-> IF d \in MonthSet THEN row[d].v ELSE row[d]]]]

\* Lines 33-35: the rows with a number > 0 in every month, in their order;
\* the month cells of the result are plain numbers.
Filtered(t) ==
    LET kept == KeepPositive(DropNa(t.rows))
    IN  [cols |-> t.cols,
         rows |-> [i \in 1..Len(kept) |->
                     [d \in t.cols |->
                        IF d \in MonthSet THEN kept[i][d].v ELSE kept[i][d]]]]

\* Lines 38-41: one rank column per month.
Ranked(t) ==
    LET rk == [m \in MonthSet |-> Rank(Column(t.rows, m))]
        cs == t.cols \cup {RankCol(m) : m \in MonthSet}
    IN  [cols |-> cs,
         rows |-> [i \in 1..Len(t.rows) |->
                     [d \in cs |->
                        IF \E m \in MonthSet : d = RankCol(m)
                        THEN rk[CHOOSE m \in MonthSet : d = RankCol(m)][i]
                        ELSE t.rows[i][d]]]]

\* Lines 44-46 without abs().
SignedRankChange(row, i) == row[RankCol(months[i + 1])] - row[RankCol(months[i])]

\* Lines 44-46: abs(rank of the later month - rank of the earlier month).
RankChange(row, i) ==
    Abs(row[RankCol(months[i + 1])] - row[RankCol(months[i])])

\* Lines 44-46: the three rank-change columns.
WithRankChanges(t) ==
    LET cs == t.cols \cup {RankChangeCol(i) : i \in 1..3}
    IN  [cols |-> cs,
         rows |-> [r \in 1..Len(t.rows) |->
                     [d \in cs |->
                        IF \E i \in 1..3 : d = RankChangeCol(i)
                        THEN RankChange(t.rows[r], CHOOSE i \in 1..3 : d = RankChangeCol(i))
                        ELSE t.rows[r][d]]]]

\* Line 49 with the change divided by the last month.
GrowthOverEnd(row) == Ratio((row["august"] - row["may"]) * 100, row["august"])

\* Line 49: ((df["august"] - df["may"]) / df["may"]) * 100.
GrowthPercentage(row) == Ratio((row["august"] - row["may"]) * 100, row["may"])

WithGrowth(t) ==
    LET cs == t.cols \cup {"growth_percentage"}
    IN  [cols |-> cs,
         rows |-> [i \in 1..Len(t.rows) |->
                     WithCol(t.rows[i], "growth_percentage", GrowthPercentage(t.rows[i]))]]

\* Line 28 raises KeyError when one of the months is no column of the table.
MonthsPresent(t) == MonthSet \subseteq Renamed(t).cols

\* preprocess_dataframe, lines 4-51, on a table with the four months.
preprocess_dataframe(t) ==
    WithGrowth(WithRankChanges(Ranked(Filtered(WithoutSpring(Coerced(Renamed(t)))))))

\* ------------------------------------------------------------ input tables

RawCols == {"Casa de apostas"} \cup {RawMonths[i] : i \in 1..Len(RawMonths)}

\* A cell the filter of lines 33-35 rejects: a missing value, text, zero.
Unusable == {NaN, Text, Num(0)}

\* The subsets of S with at most k elements.
RECURSIVE SubsetsUpTo(_, _)
SubsetsUpTo(S, k) ==
    IF k = 0 \/ S = {} THEN {{}}
    ELSE LET x == CHOOSE y \in S : TRUE
             rest == S \ {x}
         IN  SubsetsUpTo(rest, k) \cup {T \cup {x} : T \in SubsetsUpTo(rest, k - 1)}

\* The table of n rows with the visits v (row, month |-> count), the cells at
\* the places bad replaced by unusable values, and the columns cs.
RawTable(n, v, bad, cs) ==
    [cols |-> cs,
     rows |-> [i \in 1..n |->
                 [c \in cs |->
                    IF c = "Casa de apostas" THEN House(i)
                    ELSE IF <<i, c>> \in DOMAIN bad THEN bad[<<i, c>>]
                    ELSE Num(v[i][c])]]]

VisitCols == RawCols \ {"Casa de apostas"}

\* raw is an input table with every month: up to MaxRows rows, visits in
\* 1..MaxVisits, at most MaxInvalid unusable cells.
CompleteTable ==
    \E n \in 0..MaxRows :
      \E v \in [1..n -> [VisitCols -> 1..MaxVisits]] :
        \E places \in SubsetsUpTo((1..n) \X VisitCols, MaxInvalid) :
          \E bad \in [places -> Unusable] :
            raw = RawTable(n, v, bad, RawCols)

\* raw is an input table that lacks one of the months.
IncompleteTable ==
    \E n \in 0..MaxRows, gone \in VisitCols :
      \E v \in [1..n -> [VisitCols \ {gone} -> 1..MaxVisits]] :
        raw = RawTable(n, v, <<>>, RawCols \ {gone})

\* A ranked table given directly to calculate_position_variation: the entities
\* with their ranks of May and August, each column a ranking method="min" of
\* some visit counts v1, v2.
RankedTable(n, v1, v2) ==
    [cols |-> {"betting_house", "rank_may", "rank_august"},
     rows |-> [i \in 1..n |->
                 [betting_house |-> House(i),
                  rank_may |-> Rank(v1)[i],
                  rank_august |-> Rank(v2)[i]]]]

\* A table of n entities with the visit counts v and the rank columns of
\* lines 38-41, no row filtered out.
UnfilteredTable(n, v) ==
    LET cs == {"betting_house"} \cup MonthSet
    IN  Ranked([cols |-> cs,
                rows |-> [i \in 1..n |->
                            [d \in cs |-> IF d = "betting_house" THEN House(i) ELSE v[i][d]]]])

\* ------------------------------------------------ visualization.py, by step

\* The ranking_columns a caller passes: the rank columns of the table, in the
\* order of the months.
RankingColumns(t) ==
    SelectSeq([i \in 1..Len(months) |-> RankCol(months[i])], LAMBDA c : c \in t.cols)

\* Line 813 with the operands exchanged.
FinalMinusInitial(row, ranking_columns) ==
    row[ranking_columns[Len(ranking_columns)]] - row[ranking_columns[1]]

\* Lines 811-813: initial_rank - final_rank, the ranks of the first and of the
\* last ranking column.
PositionVariation(row, ranking_columns) ==
    row[ranking_columns[1]] - row[ranking_columns[Len(ranking_columns)]]

\* Lines 816-818 with >= for >.
PerformanceGe(x) == IF x >= 0 THEN "Gained" ELSE IF x < 0 THEN "Lost" ELSE "Maintained"

\* Lines 816-818: "Gained" if x > 0 else "Lost" if x < 0 else "Maintained".
Performance(x) == IF x > 0 THEN "Gained" ELSE IF x < 0 THEN "Lost" ELSE "Maintained"

\* Lines 811-818: the four columns calculate_position_variation writes into
\* the table it is given.
WithPositionVariation(t, ranking_columns) ==
    LET cs == t.cols \cup {"initial_rank", "final_rank", "position_variation", "performance"}
    IN  [cols |-> cs,
         rows |-> [i \in 1..Len(t.rows) |->
                     LET row == t.rows[i]
                     IN  [d \in cs |->
                            CASE d = "initial_rank" -> row[ranking_columns[1]]
                              [] d = "final_rank" -> row[ranking_columns[Len(ranking_columns)]]
                              [] d = "position_variation" ->
                                   PositionVariation(row, ranking_columns)
                              [] d = "performance" ->
                                   Performance(PositionVariation(row, ranking_columns))
                              [] OTHER -> row[d]]]]

\* Lines 820-828: the columns of the returned table.
PositionVariationCols ==
    {"betting_house", "initial_rank", "final_rank", "position_variation", "performance"}

\* calculate_position_variation, lines 801-828: the returned table.
calculate_position_variation(t, ranking_columns) ==
    LET w == WithPositionVariation(t, ranking_columns)
    IN  [cols |-> PositionVariationCols,
         rows |-> [i \in 1..Len(w.rows) |-> Project(w.rows[i], PositionVariationCols)]]

\* The rows of a table ordered by column c, largest first, rows with equal
\* values in their order in the table.
RECURSIVE InsertRowDesc(_, _, _)
InsertRowDesc(s, row, c) ==
    IF s = <<>> THEN <<row>>
    ELSE IF Head(s)[c] >= row[c] THEN <<Head(s)>> \o InsertRowDesc(Tail(s), row, c)
    ELSE <<row>> \o s

RECURSIVE SortRowsDesc(_, _)
SortRowsDesc(rows, c) ==
    IF rows = <<>> THEN <<>>
    ELSE InsertRowDesc(SortRowsDesc(SubSeq(rows, 1, Len(rows) - 1), c), rows[Len(rows)], c)

\* The same, smallest first.
RECURSIVE InsertRowAsc(_, _, _)
InsertRowAsc(s, row, c) ==
    IF s = <<>> THEN <<row>>
    ELSE IF Head(s)[c] <= row[c] THEN <<Head(s)>> \o InsertRowAsc(Tail(s), row, c)
    ELSE <<row>> \o s

RECURSIVE SortRowsAsc(_, _)
SortRowsAsc(rows, c) ==
    IF rows = <<>> THEN <<>>
    ELSE InsertRowAsc(SortRowsAsc(SubSeq(rows, 1, Len(rows) - 1), c), rows[Len(rows)], c)

FirstN(s, n) == SubSeq(s, 1, IF n < Len(s) THEN n ELSE Len(s))

\* The first n rows in table order, whatever their values.
HeadRows(rows, n, c) == IF n <= 0 THEN <<>> ELSE FirstN(rows, n)

\* DataFrame.nlargest(n, c), keep="first": the n rows with the largest c,
\* largest first; among equal values the rows that come first in the table.
NLargest(rows, n, c) == IF n <= 0 THEN <<>> ELSE FirstN(SortRowsDesc(rows, c), n)

\* DataFrame.nsmallest(n, c), keep="first".
NSmallest(rows, n, c) == IF n <= 0 THEN <<>> ELSE FirstN(SortRowsAsc(rows, c), n)

WithPerformance(rows, p) == SelectSeq(rows, LAMBDA row : row["performance"] = p)

\* The three groups all cut to top_n rows.
TopMoversAllCut(t, top_n) ==
    LET maintained_df == FirstN(WithPerformance(t.rows, "Maintained"), top_n)
        top_gainers_df == NLargest(WithPerformance(t.rows, "Gained"), top_n, "position_variation")
        top_losers_df == NSmallest(WithPerformance(t.rows, "Lost"), top_n, "position_variation")
    IN  [cols |-> t.cols, rows |-> maintained_df \o top_gainers_df \o top_losers_df]

\* get_top_movers, lines 937-963: the maintained rows, then the top_n
\* gainers, then the top_n losers.
get_top_movers(t, top_n) ==
    LET maintained_df == WithPerformance(t.rows, "Maintained")
        top_gainers_df == NLargest(WithPerformance(t.rows, "Gained"), top_n, "position_variation")
        top_losers_df == NSmallest(WithPerformance(t.rows, "Lost"), top_n, "position_variation")
    IN  [cols |-> t.cols, rows |-> maintained_df \o top_gainers_df \o top_losers_df]

\* The loop of lines 980-981 visits only consecutive columns.
AdjacentPairs(n) == [i \in 1..(n - 1) |-> <<i, i + 1>>]

RECURSIVE PairsFrom(_, _, _)
\* Lines 980-981 from (i, j) on: j runs over i+1..n inside i over 1..n-1.
PairsFrom(i, j, n) ==
    IF i >= n THEN <<>>
    ELSE IF j > n THEN PairsFrom(i + 1, i + 2, n)
    ELSE <<<<i, j>>>> \o PairsFrom(i, j + 1, n)

\* Lines 980-981: every pair of columns i < j, in loop order.
RecoveryPairs(n) == PairsFrom(1, 2, n)

\* Lines 986-1001 for one pair: the rows with drop_amount > 0 (dropped) and
\* rank[j] < rank[i] (recovered), with drop_amount as their recovery_amount.
DroppedRecovered(t, ranking_columns, i, j) ==
    LET drop_col == ranking_columns[i]
        recovery_col == ranking_columns[j]
        kept == SelectSeq(t.rows, LAMBDA row :
                    /\ row[drop_col] - row[recovery_col] > 0
                    /\ row[recovery_col] < row[drop_col])
    IN  [r \in 1..Len(kept) |->
           [d \in t.cols \cup {"recovery_amount"} |->
              IF d = "recovery_amount"
              THEN kept[r][drop_col] - kept[r][recovery_col]
              ELSE kept[r][d]]]

RECURSIVE ConcatRecoveries(_, _, _)
\* Lines 1004-1008: the rows of every pair, concatenated in loop order.
ConcatRecoveries(t, ranking_columns, pairs) ==
    IF pairs = <<>> THEN <<>>
    ELSE DroppedRecovered(t, ranking_columns, pairs[1][1], pairs[1][2])
         \o ConcatRecoveries(t, ranking_columns, Tail(pairs))

\* The names of the houses, in the order groupby sorts its keys.
SortedHouses == [i \in 1..5 |-> House(i)]

MaxOf(S) == CHOOSE x \in S : \A y \in S : y <= x

\* Rows in house order, not sorted by recovery_amount.
Unsorted(rows, c) == rows

\* Lines 1015-1023: one row per house, the largest recovery_amount and the
\* first value of each of the four rank columns.
GroupMax(rows, ranking_columns) ==
    LET present == {rows[r]["betting_house"] : r \in 1..Len(rows)}
        keys == SelectSeq(SortedHouses, LAMBDA h : h \in present)
        cs == {"betting_house", "recovery_amount"} \cup {ranking_columns[i] : i \in 1..4}
    IN  [k \in 1..Len(keys) |->
           LET group == SelectSeq(rows, LAMBDA row : row["betting_house"] = keys[k])
           IN  [d \in cs |->
                  IF d = "betting_house" THEN keys[k]
                  ELSE IF d = "recovery_amount"
                  THEN MaxOf({group[r]["recovery_amount"] : r \in 1..Len(group)})
                  ELSE group[1][d]]]

\* Lines 1026-1028: sort_values(by="recovery_amount", ascending=False).
SortByRecovery(rows, c) == SortRowsDesc(rows, c)

\* calculate_drop_and_recovery, lines 966-1030, called with four ranking
\* columns.
calculate_drop_and_recovery(t, ranking_columns) ==
    LET df_recovered == ConcatRecoveries(t, ranking_columns,
                                         RecoveryPairs(Len(ranking_columns)))
        df_recovered_max == SortByRecovery(GroupMax(df_recovered, ranking_columns),
                                           "recovery_amount")
    IN  [cols |-> {"betting_house", "recovery_amount"}
                    \cup {ranking_columns[i] : i \in 1..Len(ranking_columns)},
         rows |-> df_recovered_max]

\* a > k for a float a and an integer k.
RatioGt(a, k) == a.num > k * a.den

\* a >= b for two floats.
RatioGe(a, b) == a.num * b.den >= b.num * a.den

\* Lines 683-686: dropna on june, july and august, then the rows with the
\* three of them > 0.
PositiveSummer(rows) ==
    SelectSeq(rows, LAMBDA row : \A m \in {"june", "july", "august"} : row[m] > 0)

\* Lines 689-691: (july - june) / june * 100.
GrowthJuneJuly(row) == Ratio((row["july"] - row["june"]) * 100, row["june"])

\* Lines 692-694: (august - july) / july * 100.
GrowthJulyAugust(row) == Ratio((row["august"] - row["july"]) * 100, row["july"])

\* Lines 703-707: (august - june) / june * 100.
TotalGrowthVisitsPercent(row) == Ratio((row["august"] - row["june"]) * 100, row["june"])

\* Lines 708-710: rank_june - rank_august.
TotalPositionChange(row) == row["rank_june"] - row["rank_august"]

\* Lines 697-700: one of the two monthly growths is above the threshold.
PeakGrowth(row, growth_threshold) ==
    \/ RatioGt(GrowthJuneJuly(row), growth_threshold)
    \/ RatioGt(GrowthJulyAugust(row), growth_threshold)

\* Lines 713-717 without the two growth conditions.
SustainedByRankOnly(row) == TotalPositionChange(row) > 0

\* Lines 713-717 without the rank condition.
SustainedByGrowthOnly(row) ==
    /\ RatioGt(GrowthJuneJuly(row), 0)
    /\ RatioGt(GrowthJulyAugust(row), 0)

\* Lines 713-717: both monthly growths positive and a better rank in august
\* than in june.
Sustained(row) ==
    /\ RatioGt(GrowthJuneJuly(row), 0)
    /\ RatioGt(GrowthJulyAugust(row), 0)
    /\ TotalPositionChange(row) > 0

\* Line 722: .head(10).
TopBrands == 10

RECURSIVE InsertRowDescRatio(_, _, _)
InsertRowDescRatio(s, row, c) ==
    IF s = <<>> THEN <<row>>
    ELSE IF RatioGe(Head(s)[c], row[c])
         THEN <<Head(s)>> \o InsertRowDescRatio(Tail(s), row, c)
         ELSE <<row>> \o s

RECURSIVE SortRowsDescRatio(_, _)
\* Lines 720-721: sort_values(by=c, ascending=False) on a float column.
SortRowsDescRatio(rows, c) ==
    IF rows = <<>> THEN <<>>
    ELSE InsertRowDescRatio(SortRowsDescRatio(SubSeq(rows, 1, Len(rows) - 1), c),
                            rows[Len(rows)], c)

SustainedGrowthCols ==
    {"growth_june_july", "growth_july_august",
     "total_growth_visits_percent", "total_position_change"}

\* identify_sustained_growth_brands, lines 670-724.
identify_sustained_growth_brands(t, growth_threshold) ==
    LET valid == PositiveSummer(t.rows)
        peak_growth_df == SelectSeq(valid, LAMBDA row : PeakGrowth(row, growth_threshold))
        sustained_growth_df == SelectSeq(peak_growth_df, LAMBDA row : Sustained(row))
        cs == t.cols \cup SustainedGrowthCols
        full == [r \in 1..Len(sustained_growth_df) |->
                   LET row == sustained_growth_df[r]
                   IN  [d \in cs |->
                          CASE d = "growth_june_july" -> GrowthJuneJuly(row)
                            [] d = "growth_july_august" -> GrowthJulyAugust(row)
                            [] d = "total_growth_visits_percent" -> TotalGrowthVisitsPercent(row)
                            [] d = "total_position_change" -> TotalPositionChange(row)
                            [] OTHER -> row[d]]]
    IN  [cols |-> cs,
         rows |-> FirstN(SortRowsDescRatio(full, "total_growth_visits_percent"), TopBrands)]

\* a > b for two floats; a comparison with NaN is False.
RatioGtRatio(a, b) ==
    /\ ~(a.num = 0 /\ a.den = 0)
    /\ ~(b.num = 0 /\ b.den = 0)
    /\ a.num * b.den > b.num * a.den

RECURSIVE SumOf(_)
SumOf(vals) == IF vals = <<>> THEN 0 ELSE Head(vals) + SumOf(Tail(vals))

\* Series.mean(): NaN for an empty column.
Mean(rows, c) == Ratio(SumOf(Column(rows, c)), Len(rows))

\* Lines 334-338: the mean of each rank-change column, in dict order.
AvgRankChanges(t) == [i \in 1..3 |-> Mean(t.rows, RankChangeCol(i))]

\* Line 341 with the last of the largest means for the first.
LastMaxKey(avg) ==
    LET best2 == IF RatioGtRatio(avg[1], avg[2]) THEN 1 ELSE 2
    IN  IF RatioGtRatio(avg[best2], avg[3]) THEN best2 ELSE 3

\* Line 341: max(d, key=d.get) keeps the first key whose mean no later mean
\* exceeds.
MaxKey(avg) ==
    LET best2 == IF RatioGtRatio(avg[2], avg[1]) THEN 2 ELSE 1
    IN  IF RatioGtRatio(avg[3], avg[best2]) THEN 3 ELSE best2

\* Line 345: df["max_rank_change"] = df[f"rank_change_{max_change_month}"].
WithMaxRankChange(t) ==
    LET c == RankChangeCol(MaxKey(AvgRankChanges(t)))
    IN  [cols |-> t.cols \cup {"max_rank_change"},
         rows |-> [r \in 1..Len(t.rows) |->
                     WithCol(t.rows[r], "max_rank_change", t.rows[r][c])]]

\* Line 347: .head(10).
TopChanges == 10

\* calculate_monthly_variation, lines 323-359: the dict it returns.
calculate_monthly_variation(t) ==
    LET avg == AvgRankChanges(t)
        max_change_month == MaxKey(avg)
        max_change_value == avg[max_change_month]
        after == WithMaxRankChange(t)
        total_houses_filtered == Len(t.rows)
    IN  [max_change_month |-> max_change_month,
         max_change_value |-> max_change_value,
         percent_variation |-> Ratio(max_change_value.num * 100,
                                     max_change_value.den * total_houses_filtered),
         top_changes_filtered |->
             [cols |-> after.cols,
              rows |-> FirstN(SortRowsDesc(after.rows, "max_rank_change"), TopChanges)]]

\* A cell that holds a string.
Formatted(str) == [text |-> str]

IsFormatted(cell) == "text" \in DOMAIN cell

\* round(x) of a float: to the nearest integer, a half to the even one.
Round(x) ==
    LET f == x.num \div x.den
        twice == 2 * (x.num - f * x.den)
    IN  IF twice < x.den THEN f
        ELSE IF twice > x.den THEN f + 1
        ELSE IF f % 2 = 0 THEN f ELSE f + 1

\* f"{value / unit:.1f}" for value >= 0 and unit a multiple of 10.
OneDecimal(value, unit) ==
    LET tenths == Round(Ratio(value.num, value.den * (unit \div 10)))
    IN  ToString(tenths \div 10) \o "." \o ToString(tenths % 10)

\* format_large_numbers, statistics.py lines 68-76, for value >= 0.
format_large_numbers(value) ==
    LET whole == value.num \div value.den
    IN  IF whole >= 1000000000 THEN OneDecimal(value, 1000000000) \o " bilhões"
        ELSE IF whole >= 1000000 THEN OneDecimal(value, 1000000) \o " milhões"
        ELSE IF whole >= 1000 THEN OneDecimal(value, 1000) \o " mil"
        ELSE ToString(whole)

\* statistics.py lines 65-66, 78-79: the sum and the mean of the four months,
\* formatted.
VisitsSum(row) == Formatted(format_large_numbers(Ratio(SumOf([i \in 1..Len(months) |-> row[months[i]]]), 1)))

VisitsAvg(row) == Formatted(format_large_numbers(Ratio(SumOf([i \in 1..Len(months) |-> row[months[i]]]), Len(months))))

\* statistics.py line 81: f"{round(x)}%".
FormatGrowth(x) == Formatted(ToString(Round(x)) \o "%")

\* statistics.py line 81 raises TypeError when a growth_percentage is a
\* string already: round() does not take one.
GrowthIsNumeric(t) ==
    \A r \in 1..Len(t.rows) : ~IsFormatted(t.rows[r]["growth_percentage"])

\* statistics.py lines 65-79: visits_sum and visits_avg written into df.
WithVisits(t) ==
    LET cs == t.cols \cup {"visits_sum", "visits_avg"}
    IN  [cols |-> cs,
         rows |-> [r \in 1..Len(t.rows) |->
                     [d \in cs |->
                        CASE d = "visits_sum" -> VisitsSum(t.rows[r])
                          [] d = "visits_avg" -> VisitsAvg(t.rows[r])
                          [] OTHER -> t.rows[r][d]]]]

\* statistics.py lines 65-81: df after generate_visits_summary returned.
WithSummary(t) ==
    LET v == WithVisits(t)
    IN  [cols |-> v.cols,
         rows |-> [r \in 1..Len(v.rows) |->
                     WithCol(v.rows[r], "growth_percentage",
                             FormatGrowth(v.rows[r]["growth_percentage"]))]]

SummaryCols == {"betting_house", "growth_percentage", "visits_sum", "visits_avg"}

\* generate_visits_summary, statistics.py lines 51-85: the four columns of
\* line 83.
generate_visits_summary(t) ==
    LET after == WithSummary(t)
    IN  [cols |-> SummaryCols,
         rows |-> [r \in 1..Len(after.rows) |-> Project(after.rows[r], SummaryCols)]]

DropCols == {"betting_house", "from_month", "to_month", "significant_drop"}

\* Lines 1110-1116 for one pair of consecutive columns: the rows whose
\* columns[i] - columns[i+1] is at least drop_threshold.
DropsBetween(t, columns, i, drop_threshold) ==
    LET kept == SelectSeq(t.rows, LAMBDA row :
                    row[columns[i]] - row[columns[i + 1]] >= drop_threshold)
    IN  [r \in 1..Len(kept) |->
           [betting_house |-> kept[r]["betting_house"],
            from_month |-> columns[i],
            to_month |-> columns[i + 1],
            significant_drop |-> kept[r][columns[i]] - kept[r][columns[i + 1]]]]

RECURSIVE ConcatDrops(_, _, _, _)
\* Lines 1110-1124: the rows of the pairs i, i+1, ... concatenated.
ConcatDrops(t, columns, i, drop_threshold) ==
    IF i >= Len(columns) THEN <<>>
    ELSE DropsBetween(t, columns, i, drop_threshold)
         \o ConcatDrops(t, columns, i + 1, drop_threshold)

\* identify_significant_drops, lines 1094-1126.
identify_significant_drops(t, columns, drop_threshold) ==
    [cols |-> IF Len(columns) >= 2 THEN DropCols ELSE {},
     rows |-> ConcatDrops(t, columns, 1, drop_threshold)]

\* columns.index(c), counted from 1.
IndexOf(columns, c) == CHOOSE i \in 1..Len(columns) : columns[i] = c

\* df.loc[df["betting_house"] == house, c].values[0].
ValueOf(t, house, c) ==
    t.rows[CHOOSE r \in 1..Len(t.rows) : t.rows[r]["betting_house"] = house][c]

\* Lines 1141-1162 for one row of drop_df: the recovery it yields, if any.
RecoveryOf(t, row, columns) ==
    LET house == row["betting_house"]
        to_month == row["to_month"]
        drop_index == IndexOf(columns, to_month)
    IN  IF drop_index + 1 <= Len(columns)
           /\ ValueOf(t, house, columns[drop_index + 1]) < ValueOf(t, house, to_month)
        THEN <<[betting_house |-> house,
                drop_month |-> to_month,
                recovery_month |-> columns[drop_index + 1],
                position_drop |-> row["significant_drop"],
                position_recovered |-> ValueOf(t, house, to_month)
                                       - ValueOf(t, house, columns[drop_index + 1])]>>
        ELSE <<>>

RECURSIVE RecoveriesOf(_, _, _)
\* Lines 1140-1163: the list recoveries, in the order of drop_df.
RecoveriesOf(t, drops, columns) ==
    IF drops = <<>> THEN <<>>
    ELSE RecoveryOf(t, Head(drops), columns) \o RecoveriesOf(t, Tail(drops), columns)

\* identify_recoveries, lines 1129-1164: pd.DataFrame(recoveries) has no
\* column when the list is empty.
identify_recoveries(t, drop_df, columns) ==
    LET recoveries == RecoveriesOf(t, drop_df.rows, columns)
    IN  [cols |-> IF recoveries = <<>> THEN {}
                  ELSE {"betting_house", "drop_month", "recovery_month",
                        "position_drop", "position_recovered"},
         rows |-> recoveries]

\* DataFrame.empty.
Empty(t) == t.rows = <<>> \/ t.cols = {}

\* plot_recoveries without the test of line 1176.
PlotUnguarded(t) ==
    IF "position_recovered" \notin t.cols
    THEN [raised |-> "KeyError", printed |-> "", plotted |-> <<>>]
    ELSE [raised |-> "none", printed |-> "",
          plotted |-> [r \in 1..Len(t.rows) |->
                         <<t.rows[r]["betting_house"], t.rows[r]["position_recovered"]>>]]

\* plot_recoveries, lines 1167-1188: what it prints, the bars it draws, and
\* the exception it raises.
plot_recoveries(t) ==
    IF Empty(t)
    THEN [raised |-> "none", printed |-> "No recoveries to plot.", plotted |-> <<>>]
    ELSE [raised |-> "none", printed |-> "",
          plotted |-> [r \in 1..Len(t.rows) |->
                         <<t.rows[r]["betting_house"], t.rows[r]["position_recovered"]>>]]

\* Lines 450-452 and 539-541: (rank_june - rank_july) + (rank_july - rank_august).
PositionChangeQ3(row) ==
    (row["rank_june"] - row["rank_july"]) + (row["rank_july"] - row["rank_august"])

\* Lines 458-460 and 550-552: (august - june) / june * 100.
VisitChangeQ3Percent(row) == Ratio((row["august"] - row["june"]) * 100, row["june"])

\* Lines 463-466 and 555-558: (rank_june - rank_august) / rank_june * 100.
PositionChangeQ3Percent(row) ==
    Ratio((row["rank_june"] - row["rank_august"]) * 100, row["rank_june"])

BrandCols == {"position_change_q3", "visit_change_q3_percent", "position_change_q3_percent"}

\* The three columns of lines 450-466 (539-558) added to the rows.
WithBrandColumns(rows, cs) ==
    [r \in 1..Len(rows) |->
       [d \in cs \cup BrandCols |->
          CASE d = "position_change_q3" -> PositionChangeQ3(rows[r])
            [] d = "visit_change_q3_percent" -> VisitChangeQ3Percent(rows[r])
            [] d = "position_change_q3_percent" -> PositionChangeQ3Percent(rows[r])
            [] OTHER -> rows[r][d]]]

\* Lines 472 and 563, 567: .head(10).
TopGrowthBrands == 10

\* calculate_top_growth_brands, lines 437-474.
calculate_top_growth_brands(t) ==
    LET df_filtered == SelectSeq(PositiveSummer(t.rows),
                                 LAMBDA row : PositionChangeQ3(row) > 0)
    IN  [cols |-> t.cols \cup BrandCols,
         rows |-> FirstN(SortRowsDesc(WithBrandColumns(df_filtered, t.cols),
                                      "position_change_q3"), TopGrowthBrands)]

\* calculate_brands_performance, lines 521-570, for performance_type "growth"
\* or "decline".
calculate_brands_performance(t, performance_type) ==
    LET df_filtered == SelectSeq(PositiveSummer(t.rows), LAMBDA row :
                           IF performance_type = "growth"
                           THEN PositionChangeQ3(row) > 0
                           ELSE PositionChangeQ3(row) < 0)
        full == WithBrandColumns(df_filtered, t.cols)
    IN  [cols |-> t.cols \cup BrandCols,
         rows |-> IF performance_type = "growth"
                  THEN FirstN(SortRowsDesc(full, "position_change_q3"), TopGrowthBrands)
                  ELSE FirstN(SortRowsAsc(full, "position_change_q3"), TopGrowthBrands)]

\* ------------------------------------------------ copa-america/src/utils.py

Teams == {"Brazil", "Colombia", "Peru"}

Tournaments == {"Copa América", "Friendly"}

ResultCols == {"home_team", "away_team", "home_score", "away_score", "tournament", "date"}

\* A results table of n matches; match i was played on day i.
ResultsTable(n, m) ==
    [cols |-> ResultCols,
     rows |-> [i \in 1..n |->
                 [d \in ResultCols |-> IF d = "date" THEN i ELSE m[i][d]]]]

\* Lines 68-72, 206-210, 373-377: v / total_matches for every outcome, as a
\* table of ['Resultado', 'Percentual']; Python raises ZeroDivisionError on a
\* total of 0.
OutcomeDistribution(labels, counts) ==
    LET total_matches == SumOf(counts)
    IN  IF total_matches = 0
        THEN [raised |-> "ZeroDivisionError", value |-> EmptyFrame]
        ELSE [raised |-> "none",
              value |-> [cols |-> {"Resultado", "Percentual"},
                         rows |-> [i \in 1..Len(labels) |->
                                     [Resultado |-> labels[i],
                                      Percentual |-> Ratio(counts[i], total_matches)]]]]

\* Lines 30-39: the matches between the two teams, either one at home.
MatchesBetween(rows, home_team, away_team) ==
    SelectSeq(rows, LAMBDA match :
        \/ match["home_team"] = home_team /\ match["away_team"] = away_team
        \/ match["home_team"] = away_team /\ match["away_team"] = home_team)

\* Lines 44-65 without the second branch (the first team winning away).
OutcomeHomeWinsOnly(match, home_team, away_team) ==
    IF match["home_team"] = home_team /\ match["home_score"] > match["away_score"]
    THEN "Brasil"
    ELSE IF match["home_team"] = away_team /\ match["home_score"] > match["away_score"]
    THEN "Colombia"
    ELSE IF match["away_team"] = away_team /\ match["away_score"] > match["home_score"]
    THEN "Colombia"
    ELSE "Empate"

\* Lines 44-65: the outcome one match is counted in.
Outcome(match, home_team, away_team) ==
    IF match["home_team"] = home_team /\ match["home_score"] > match["away_score"]
    THEN "Brasil"
    ELSE IF match["away_team"] = home_team /\ match["away_score"] > match["home_score"]
    THEN "Brasil"
    ELSE IF match["home_team"] = away_team /\ match["home_score"] > match["away_score"]
    THEN "Colombia"
    ELSE IF match["away_team"] = away_team /\ match["away_score"] > match["home_score"]
    THEN "Colombia"
    ELSE "Empate"

\* calculate_match_outcomes, lines 12-73 (the same code as
\* copa-america/utils.py lines 10-56).
calculate_match_outcomes(t, home_team, away_team) ==
    LET matches == MatchesBetween(t.rows, home_team, away_team)
        labels == <<"Brasil", "Colombia", "Empate">>
        outcomes == [i \in 1..3 |->
                       Len(SelectSeq(matches, LAMBDA match :
                               Outcome(match, home_team, away_team) = labels[i]))]
    IN  OutcomeDistribution(labels, outcomes)

\* Lines 170-182: the matches of the team, of one tournament if one is given
\* ("" stands for None).
MatchesOf(rows, team_name, tournament) ==
    SelectSeq(rows, LAMBDA match :
        /\ match["home_team"] = team_name \/ match["away_team"] = team_name
        /\ tournament # "" => match["tournament"] = tournament)

\* Lines 184-185: the last_n_games most recent matches, if last_n_games is
\* given (0 stands for None).
MostRecent(matches, last_n_games) ==
    IF last_n_games # 0 THEN FirstN(SortRowsDesc(matches, "date"), last_n_games)
    ELSE matches

\* Lines 189-203: the outcome of one match for the team.
TeamOutcome(match, team_name) ==
    IF match["home_team"] = team_name
    THEN IF match["home_score"] > match["away_score"] THEN "Vitórias"
         ELSE IF match["home_score"] < match["away_score"] THEN "Derrotas"
         ELSE "Empates"
    ELSE IF match["away_team"] = team_name
    THEN IF match["away_score"] > match["home_score"] THEN "Vitórias"
         ELSE IF match["away_score"] < match["home_score"] THEN "Derrotas"
         ELSE "Empates"
    ELSE "none"

\* calculate_team_performance, lines 148-211.
calculate_team_performance(t, team_name, tournament, last_n_games) ==
    LET matches == MostRecent(MatchesOf(t.rows, team_name, tournament), last_n_games)
        labels == <<"Vitórias", "Derrotas", "Empates">>
        outcomes == [i \in 1..3 |->
                       Len(SelectSeq(matches, LAMBDA match :
                               TeamOutcome(match, team_name) = labels[i]))]
    IN  OutcomeDistribution(labels, outcomes)

\* calculate_goal_percentage, lines 336-378.
calculate_goal_percentage(t, team_name, tournament) ==
    LET matches == SelectSeq(t.rows, LAMBDA match :
                       /\ match["home_team"] = team_name \/ match["away_team"] = team_name
                       /\ match["tournament"] = tournament)
        scored == SelectSeq(matches, LAMBDA match :
                      \/ match["home_team"] = team_name /\ match["home_score"] > 0
                      \/ match["away_team"] = team_name /\ match["away_score"] > 0)
    IN  OutcomeDistribution(<<"Marcou", "Não Marcou">>,
                            <<Len(scored), Len(matches) - Len(scored)>>)

\* Lines 1018-1021 read ranking_columns[0] to ranking_columns[3]: a shorter
\* list raises IndexError.
FourthColumnMissing(ranking_columns) == Len(ranking_columns) < 4

\* Lines 1308-1310: "positive" if x > 0 else "negative".
VariationType(x) == IF x > 0 THEN "positive" ELSE "negative"

VariationCols == {"position_change", "from_month", "to_month", "variation_type"}

\* Lines 1304-1310 for one pair of consecutive columns: df_temp.
VariationsBetween(t, ranking_columns, i) ==
    [r \in 1..Len(t.rows) |->
       [d \in t.cols \cup VariationCols |->
          CASE d = "position_change" ->
                   t.rows[r][ranking_columns[i]] - t.rows[r][ranking_columns[i + 1]]
            [] d = "from_month" -> ranking_columns[i]
            [] d = "to_month" -> ranking_columns[i + 1]
            [] d = "variation_type" ->
                   VariationType(t.rows[r][ranking_columns[i]]
                                 - t.rows[r][ranking_columns[i + 1]])
            [] OTHER -> t.rows[r][d]]]

\* Lines 1313-1318: the top_n largest positive and the top_n smallest
\* negative variations of one pair.
TopVariationsBetween(t, ranking_columns, i, top_n) ==
    LET df_temp == VariationsBetween(t, ranking_columns, i)
        top_positive == NLargest(SelectSeq(df_temp, LAMBDA row :
                                     row["variation_type"] = "positive"),
                                 top_n, "position_change")
        top_negative == NSmallest(SelectSeq(df_temp, LAMBDA row :
                                      row["variation_type"] = "negative"),
                                  top_n, "position_change")
    IN  top_positive \o top_negative

RECURSIVE ConcatVariations(_, _, _, _)
\* Lines 1303-1320: the rows of the pairs i, i+1, ... concatenated.
ConcatVariations(t, ranking_columns, i, top_n) ==
    IF i >= Len(ranking_columns) THEN <<>>
    ELSE TopVariationsBetween(t, ranking_columns, i, top_n)
         \o ConcatVariations(t, ranking_columns, i + 1, top_n)

\* get_top_position_variations, lines 1290-1322.
get_top_position_variations(t, ranking_columns, top_n) ==
    [cols |-> IF Len(ranking_columns) >= 2 THEN t.cols \cup VariationCols ELSE {},
     rows |-> ConcatVariations(t, ranking_columns, 1, top_n)]

\* Lines 1205-1208: ranking_columns[i] - ranking_columns[i+1].
ConsecutivePositionVariation(row, ranking_columns, i) ==
    row[ranking_columns[i]] - row[ranking_columns[i + 1]]

\* Lines 1211-1216: (visits[i+1] - visits[i]) / visits[i] * 100.
VisitVariation(row, visit_columns, i) ==
    Ratio((row[visit_columns[i + 1]] - row[visit_columns[i]]) * 100, row[visit_columns[i]])

\* calculate_position_and_visit_variation, lines 1191-1218, called with the
\* four rank columns and the four months: a copy of the table with one
\* position variation and one visit variation per pair of consecutive months.
calculate_position_and_visit_variation(t, ranking_columns, visit_columns) ==
    LET pv == {PositionVariationCol(i) : i \in 1..(Len(ranking_columns) - 1)}
        vv == {VisitVariationCol(i) : i \in 1..(Len(visit_columns) - 1)}
        cs == t.cols \cup pv \cup vv
    IN  [cols |-> cs,
         rows |-> [r \in 1..Len(t.rows) |->
                     [d \in cs |->
                        IF d \in pv
                        THEN ConsecutivePositionVariation(t.rows[r], ranking_columns,
                                 CHOOSE i \in 1..3 : d = PositionVariationCol(i))
                        ELSE IF d \in vv
                        THEN VisitVariation(t.rows[r], visit_columns,
                                 CHOOSE i \in 1..3 : d = VisitVariationCol(i))
                        ELSE t.rows[r][d]]]]

\* ----------------------------------------------------------------- actions

\* An input table as loaded from the file.
InitLoaded ==
    /\ df = EmptyFrame
    /\ out = NoResult
    /\ err = "none"
    /\ phase = "loaded"

Init == InitLoaded /\ (CompleteTable \/ IncompleteTable)

\* An input table with a usable visit count in every cell.
InitClean ==
    /\ InitLoaded
    /\ \E n \in 0..MaxRows :
         \E v \in [1..n -> [VisitCols -> 1..MaxVisits]] :
           raw = RawTable(n, v, <<>>, RawCols)

\* A ranked table of two periods, ready for calculate_position_variation.
InitRanked ==
    /\ raw = EmptyFrame
    /\ \E n \in 0..MaxRankedRows :
         \E v1 \in [1..n -> 1..n], v2 \in [1..n -> 1..n] :
           df = RankedTable(n, v1, v2)
    /\ out = NoResult
    /\ err = "none"
    /\ phase = "ready"

\* An input table with a usable visit count in every cell, for
\* identify_sustained_growth_brands.
InitGrowth ==
    /\ InitLoaded
    /\ \E n \in 0..MaxGrowthRows :
         \E v \in [1..n -> [VisitCols -> 1..MaxGrowthVisits]] :
           raw = RawTable(n, v, <<>>, RawCols)

\* A table with rank columns whose rows were not filtered: a visit count may
\* be 0.
InitUnfiltered ==
    /\ raw = EmptyFrame
    /\ \E n \in 0..MaxUnfilteredRows :
         \E v \in [1..n -> [MonthSet -> 0..MaxVisits]] :
           df = UnfilteredTable(n, v)
    /\ out = NoResult
    /\ err = "none"
    /\ phase = "ready"

\* An input table with a usable visit count in every cell, for a session of
\* calls on the preprocessed table.
InitSession ==
    /\ InitLoaded
    /\ \E n \in 0..MaxSessionRows :
         \E v \in [1..n -> [VisitCols -> 1..MaxVisits]] :
           raw = RawTable(n, v, <<>>, RawCols)

\* A results table: every match between two different teams.
InitMatches ==
    /\ raw = EmptyFrame
    /\ \E n \in 0..MaxMatches :
         \E m \in [1..n -> [home_team : Teams, away_team : Teams,
                            home_score : 0..MaxGoals, away_score : 0..MaxGoals,
                            tournament : Tournaments]] :
           /\ \A i \in 1..n : m[i].home_team # m[i].away_team
           /\ df = ResultsTable(n, m)
    /\ out = NoResult
    /\ err = "none"
    /\ phase = "ready"

\* preprocess_dataframe with the KeyError of line 28 swallowed: the renamed
\* table is returned as it is.
PreprocessSwallowed ==
    /\ phase = "loaded"
    /\ df' = IF MonthsPresent(raw) THEN preprocess_dataframe(raw) ELSE Renamed(raw)
    /\ err' = "none"
    /\ phase' = "ready"
    /\ UNCHANGED <<raw, out>>

\* df = preprocess_dataframe(df): the table is replaced by the preprocessed
\* one, or the call raises at line 28 and nothing is returned.
Preprocess ==
    /\ phase = "loaded"
    /\ IF MonthsPresent(raw)
       THEN /\ df' = preprocess_dataframe(raw)
            /\ err' = "none"
            /\ phase' = "ready"
       ELSE /\ df' = df
            /\ err' = "KeyError"
            /\ phase' = "failed"
    /\ UNCHANGED <<raw, out>>

\* calculate_position_variation(df, ranking_columns): writes its columns into
\* df and returns the five columns of lines 820-828.
CalculatePositionVariation ==
    /\ phase = "ready"
    /\ Len(RankingColumns(df)) >= 1
    /\ df' = WithPositionVariation(df, RankingColumns(df))
    /\ out' = [op |-> "calculate_position_variation", arg |-> df, n |-> 0,
               value |-> calculate_position_variation(df, RankingColumns(df))]
    /\ UNCHANGED <<raw, err, phase>>

\* get_top_movers(position_df, top_n) on the table calculate_position_variation
\* returned.
GetTopMovers ==
    /\ phase = "ready"
    /\ out.op = "calculate_position_variation"
    /\ \E top_n \in 0..MaxTopN :
         out' = [op |-> "get_top_movers", arg |-> out.value, n |-> top_n,
                 value |-> get_top_movers(out.value, top_n)]
    /\ UNCHANGED <<raw, df, err, phase>>

\* calculate_position_and_visit_variation(df, ranking_columns, visit_columns)
\* with the four rank columns and the four months.
CalculatePositionAndVisitVariation ==
    /\ phase = "ready"
    /\ MonthSet \subseteq df.cols
    /\ Len(RankingColumns(df)) = Len(months)
    /\ out' = [op |-> "calculate_position_and_visit_variation", arg |-> df, n |-> 0,
               value |-> calculate_position_and_visit_variation(df, RankingColumns(df), months)]
    /\ UNCHANGED <<raw, df, err, phase>>

\* calculate_drop_and_recovery(df, ranking_columns) with the four rank columns.
CalculateDropAndRecovery ==
    /\ phase = "ready"
    /\ Len(RankingColumns(df)) = Len(months)
    /\ out' = [op |-> "calculate_drop_and_recovery", arg |-> df, n |-> 0,
               value |-> calculate_drop_and_recovery(df, RankingColumns(df))]
    /\ UNCHANGED <<raw, df, err, phase>>

\* The values growth_threshold is called with: the default and one more.
GrowthThresholds == {50, 100}

\* identify_sustained_growth_brands(df, growth_threshold).
IdentifySustainedGrowthBrands ==
    /\ phase = "ready"
    /\ {"june", "july", "august", "rank_june", "rank_august"} \subseteq df.cols
    /\ \E growth_threshold \in GrowthThresholds :
         out' = [op |-> "identify_sustained_growth_brands", arg |-> df,
                 n |-> growth_threshold,
                 value |-> identify_sustained_growth_brands(df, growth_threshold)]
    /\ UNCHANGED <<raw, df, err, phase>>

\* calculate_monthly_variation(df): writes max_rank_change into df and
\* returns its dict.
CalculateMonthlyVariation ==
    /\ phase = "ready"
    /\ {RankChangeCol(i) : i \in 1..3} \subseteq df.cols
    /\ df' = WithMaxRankChange(df)
    /\ out' = [op |-> "calculate_monthly_variation", arg |-> df, n |-> 0,
               value |-> calculate_monthly_variation(df)]
    /\ UNCHANGED <<raw, err, phase>>

\* generate_visits_summary(df): writes visits_sum and visits_avg into df, then
\* formats growth_percentage in df or raises TypeError at line 81; err keeps
\* the exception.
GenerateVisitsSummary ==
    /\ phase = "ready"
    /\ MonthSet \cup {"betting_house", "growth_percentage"} \subseteq df.cols
    /\ IF GrowthIsNumeric(df)
       THEN /\ df' = WithSummary(df)
            /\ out' = [op |-> "generate_visits_summary", arg |-> df, n |-> 0,
                       value |-> generate_visits_summary(df)]
            /\ err' = err
       ELSE /\ df' = WithVisits(df)
            /\ out' = [op |-> "generate_visits_summary", arg |-> df, n |-> 0,
                       value |-> EmptyFrame]
            /\ err' = "TypeError"
    /\ UNCHANGED <<raw, phase>>

\* The values drop_threshold is called with: the default 3 and two smaller.
DropThresholds == {1, 2, 3}

\* identify_significant_drops(df, ranking_columns, drop_threshold).
IdentifySignificantDrops ==
    /\ phase = "ready"
    /\ Len(RankingColumns(df)) = Len(months)
    /\ \E drop_threshold \in DropThresholds :
         out' = [op |-> "identify_significant_drops", arg |-> df, n |-> drop_threshold,
                 value |-> identify_significant_drops(df, RankingColumns(df), drop_threshold)]
    /\ UNCHANGED <<raw, df, err, phase>>

\* identify_recoveries(df, drop_df, ranking_columns) on the table
\* identify_significant_drops returned.
IdentifyRecoveries ==
    /\ phase = "ready"
    /\ out.op = "identify_significant_drops"
    /\ out' = [op |-> "identify_recoveries", arg |-> out.value, n |-> out.n,
               value |-> identify_recoveries(df, out.value, RankingColumns(df))]
    /\ UNCHANGED <<raw, df, err, phase>>

\* plot_recoveries(recoveries_df) on the table identify_recoveries returned.
PlotRecoveries ==
    /\ phase = "ready"
    /\ out.op = "identify_recoveries"
    /\ out' = [op |-> "plot_recoveries", arg |-> out.value, n |-> out.n,
               value |-> plot_recoveries(out.value)]
    /\ err' = IF plot_recoveries(out.value).raised = "none"
              THEN err ELSE plot_recoveries(out.value).raised
    /\ UNCHANGED <<raw, df, phase>>

QuarterCols == {"june", "july", "august", "rank_june", "rank_july", "rank_august"}

\* calculate_top_growth_brands(df).
CalculateTopGrowthBrands ==
    /\ phase = "ready"
    /\ QuarterCols \subseteq df.cols
    /\ out' = [op |-> "calculate_top_growth_brands", arg |-> df, n |-> "growth",
               value |-> calculate_top_growth_brands(df)]
    /\ UNCHANGED <<raw, df, err, phase>>

\* calculate_brands_performance(df, performance_type); n keeps the type.
CalculateBrandsPerformance ==
    /\ phase = "ready"
    /\ QuarterCols \subseteq df.cols
    /\ \E performance_type \in {"growth", "decline"} :
         out' = [op |-> "calculate_brands_performance", arg |-> df, n |-> performance_type,
                 value |-> calculate_brands_performance(df, performance_type)]
    /\ UNCHANGED <<raw, df, err, phase>>

\* calculate_match_outcomes(df_results, home_team, away_team); n keeps the
\* two teams, err the exception of line 68.
CalculateMatchOutcomes ==
    /\ phase = "ready"
    /\ ResultCols \subseteq df.cols
    /\ \E home_team \in Teams, away_team \in Teams :
         /\ home_team # away_team
         /\ LET res == calculate_match_outcomes(df, home_team, away_team)
            IN  /\ out' = [op |-> "calculate_match_outcomes", arg |-> df,
                           n |-> <<home_team, away_team>>, value |-> res.value]
                /\ err' = IF res.raised = "none" THEN err ELSE res.raised
    /\ UNCHANGED <<raw, df, phase>>

\* calculate_team_performance(df_results, team_name, tournament, last_n_games).
CalculateTeamPerformance ==
    /\ phase = "ready"
    /\ ResultCols \subseteq df.cols
    /\ \E team_name \in Teams, tournament \in Tournaments \cup {""},
          last_n_games \in 0..MaxLastN :
         LET res == calculate_team_performance(df, team_name, tournament, last_n_games)
         IN  /\ out' = [op |-> "calculate_team_performance", arg |-> df,
                        n |-> <<team_name, tournament, last_n_games>>, value |-> res.value]
             /\ err' = IF res.raised = "none" THEN err ELSE res.raised
    /\ UNCHANGED <<raw, df, phase>>

\* calculate_goal_percentage(df_results, team_name, tournament).
CalculateGoalPercentage ==
    /\ phase = "ready"
    /\ ResultCols \subseteq df.cols
    /\ \E team_name \in Teams, tournament \in Tournaments :
         LET res == calculate_goal_percentage(df, team_name, tournament)
         IN  /\ out' = [op |-> "calculate_goal_percentage", arg |-> df,
                        n |-> <<team_name, tournament>>, value |-> res.value]
             /\ err' = IF res.raised = "none" THEN err ELSE res.raised
    /\ UNCHANGED <<raw, df, phase>>

\* calculate_drop_and_recovery(df, ranking_columns) with the first k rank
\* columns, k >= 2; n keeps k, err the exception of lines 1018-1021.
CalculateDropAndRecoveryOn ==
    /\ phase = "ready"
    /\ Len(RankingColumns(df)) = Len(months)
    /\ \E k \in 2..Len(months) :
         LET ranking_columns == SubSeq(RankingColumns(df), 1, k)
         IN  IF FourthColumnMissing(ranking_columns)
             THEN /\ out' = [op |-> "calculate_drop_and_recovery", arg |-> df, n |-> k,
                             value |-> EmptyFrame]
                  /\ err' = "IndexError"
             ELSE /\ out' = [op |-> "calculate_drop_and_recovery", arg |-> df, n |-> k,
                             value |-> calculate_drop_and_recovery(df, ranking_columns)]
                  /\ err' = err
    /\ UNCHANGED <<raw, df, phase>>

\* get_top_position_variations(df, ranking_columns, top_n).
GetTopPositionVariations ==
    /\ phase = "ready"
    /\ Len(RankingColumns(df)) = Len(months)
    /\ \E top_n \in 0..MaxTopN :
         out' = [op |-> "get_top_position_variations", arg |-> df, n |-> top_n,
                 value |-> get_top_position_variations(df, RankingColumns(df), top_n)]
    /\ UNCHANGED <<raw, df, err, phase>>

Next == Preprocess

NextVariation ==
    \/ Preprocess
    \/ CalculatePositionVariation
    \/ CalculatePositionAndVisitVariation

NextMovers ==
    \/ CalculatePositionVariation
    \/ GetTopMovers

\* preprocess_dataframe on every input table.
Spec == Init /\ [][Next]_vars

\* The rank and visit variations of a preprocessed table.
SpecVariation == InitClean /\ [][NextVariation]_vars

\* The classification of a ranked table and its top movers.
SpecMovers == InitRanked /\ [][NextMovers]_vars

NextRecovery ==
    \/ Preprocess
    \/ CalculateDropAndRecovery

\* The recoveries of a preprocessed table.
SpecRecovery == InitClean /\ [][NextRecovery]_vars

NextGrowth ==
    \/ Preprocess
    \/ IdentifySustainedGrowthBrands

\* The sustained growth of a preprocessed table.
SpecGrowth == InitGrowth /\ [][NextGrowth]_vars

NextUnfiltered == CalculatePositionAndVisitVariation

\* The variations of a ranked table that was not filtered.
SpecUnfiltered == InitUnfiltered /\ [][NextUnfiltered]_vars

NextSession ==
    \/ Preprocess
    \/ CalculatePositionVariation
    \/ CalculateMonthlyVariation
    \/ GenerateVisitsSummary

\* Any sequence of calls on the one preprocessed table.
SpecSession == InitSession /\ [][NextSession]_vars

NextDrops ==
    \/ Preprocess
    \/ IdentifySignificantDrops
    \/ IdentifyRecoveries
    \/ PlotRecoveries
    \/ CalculateDropAndRecovery

\* The drops and recoveries of a preprocessed table.
SpecDrops == InitClean /\ [][NextDrops]_vars

NextBrands ==
    \/ Preprocess
    \/ CalculateTopGrowthBrands
    \/ CalculateBrandsPerformance

\* The brands that gained or lost positions over the quarter.
SpecBrands == InitClean /\ [][NextBrands]_vars

NextMatches ==
    \/ CalculateMatchOutcomes
    \/ CalculateTeamPerformance
    \/ CalculateGoalPercentage

\* The outcome distributions of a results table.
SpecMatches == InitMatches /\ [][NextMatches]_vars

NextRecoveryColumns ==
    \/ Preprocess
    \/ CalculateDropAndRecoveryOn

\* calculate_drop_and_recovery on two, three or four ranking columns.
SpecRecoveryColumns == InitSession /\ [][NextRecoveryColumns]_vars

NextTopVariations ==
    \/ Preprocess
    \/ GetTopPositionVariations

\* The largest month-to-month position variations of a preprocessed table.
SpecTopVariations == InitSession /\ [][NextTopVariations]_vars

\* ------------------------------------------------------------------ claims

\* The raw label of month m.
RawMonth(m) == RawMonths[CHOOSE i \in 1..Len(months) : months[i] = m]

\* A raw cell holds a usable metric: a number, strictly positive.
Usable(cell) == cell.k = "num" /\ cell.v > 0

\* The rows of the input table with a usable metric in month m.
ValidIn(m) == {i \in 1..Len(raw.rows) : Usable(raw.rows[i][RawMonth(m)])}

\* The rows of the input table with a usable metric in every month.
ValidRows == {i \in 1..Len(raw.rows) : \A m \in MonthSet : Usable(raw.rows[i][RawMonth(m)])}

Houses(rows) == {rows[i]["betting_house"] : i \in 1..Len(rows)}

\* The position of entity h in the input table.
RawPos(h) == CHOOSE i \in 1..Len(raw.rows) : raw.rows[i]["Casa de apostas"] = h

\* The position of entity h in rows.
PosIn(rows, h) == CHOOSE i \in 1..Len(rows) : rows[i]["betting_house"] = h

\* C1: in every month the rank of an entity is 1 plus the number of ranked
\* entities with a strictly greater metric: equal metrics share a rank, the
\* maximum has rank 1, and after k entities tied at r the next value has r+k.
C1_RankIsCompetitionRank ==
    phase = "ready" =>
      \A m \in MonthSet : \A i \in 1..Len(df.rows) :
        df.rows[i][RankCol(m)] =
          1 + Cardinality({j \in 1..Len(df.rows) : df.rows[j][m] > df.rows[i][m]})

\* Two entities tied at the top and a third below them: ranks 1, 1, 3.
C1_Witness ==
    /\ phase = "ready"
    /\ Len(df.rows) = 3
    /\ df.rows[1]["may"] = df.rows[2]["may"]
    /\ df.rows[3]["may"] < df.rows[1]["may"]
    /\ df.rows[1]["rank_may"] = 1
    /\ df.rows[2]["rank_may"] = 1
    /\ df.rows[3]["rank_may"] = 3

\* C2: every rank is an integer r with 1 <= r <= K, K the number of entities
\* with a usable (non-null, strictly positive) metric in that month.
C2_RankWithinValidCount ==
    phase = "ready" =>
      \A m \in MonthSet : \A i \in 1..Len(df.rows) :
        df.rows[i][RankCol(m)] \in 1..Cardinality(ValidIn(m))

\* A month with more usable entities than ranked ones, the last rank taken.
C2_Witness ==
    /\ phase = "ready"
    /\ Len(df.rows) = 2
    /\ Cardinality(ValidIn("may")) = 3
    /\ \E i \in 1..2 : df.rows[i]["rank_may"] = 2

\* C3: the filter keeps an entity if and only if its metric is a number > 0
\* in every month; an entity with 0 in one month is in no row of the table
\* that holds the ranks, the rank changes and the growth.
C3_FilterKeepsExactlyValid ==
    phase = "ready" =>
      /\ \A i \in 1..Len(raw.rows) :
           (raw.rows[i]["Casa de apostas"] \in Houses(df.rows)) <=> (i \in ValidRows)
      /\ \A i \in 1..Len(raw.rows) :
           (\E m \in MonthSet : raw.rows[i][RawMonth(m)] = Num(0))
             => \A j \in 1..Len(df.rows) :
                  df.rows[j]["betting_house"] # raw.rows[i]["Casa de apostas"]

\* An entity with exactly 0 in one month and usable counts in the others is
\* dropped while the others are kept.
C3_Witness ==
    /\ phase = "ready"
    /\ Len(raw.rows) = 3
    /\ \E i \in 1..3 : \E m \in MonthSet :
         /\ raw.rows[i][RawMonth(m)] = Num(0)
         /\ \A m2 \in MonthSet \ {m} : Usable(raw.rows[i][RawMonth(m2)])
         /\ raw.rows[i]["Casa de apostas"] \notin Houses(df.rows)
    /\ Len(df.rows) = 2

\* C4: the filter preserves order: the entities that remain are in the same
\* relative order as in the input table.
C4_FilterPreservesOrder ==
    phase = "ready" =>
      \A i, j \in 1..Len(df.rows) :
        i < j => RawPos(df.rows[i]["betting_house"]) < RawPos(df.rows[j]["betting_house"])

\* The middle row of three is dropped and the outer two keep their order.
C4_Witness ==
    /\ phase = "ready"
    /\ Len(raw.rows) = 3
    /\ 2 \notin ValidRows
    /\ Len(df.rows) = 2
    /\ df.rows[1]["betting_house"] = raw.rows[1]["Casa de apostas"]
    /\ df.rows[2]["betting_house"] = raw.rows[3]["Casa de apostas"]

\* C5 as stated: rank computation never removes an entity from the table it
\* returns.
C5_NoEntityRemoved ==
    phase = "ready" =>
      \A i \in 1..Len(raw.rows) : raw.rows[i]["Casa de apostas"] \in Houses(df.rows)

\* C5 amended: an entity whose metric is null, zero or missing in some month
\* gets no rank in any month because its row is removed; the returned table
\* has one row per entity usable in every month, each with its four ranks.
C5_InvalidEntityRemoved ==
    phase = "ready" =>
      /\ \A i \in 1..Len(raw.rows) : \A m \in MonthSet :
           ~Usable(raw.rows[i][RawMonth(m)])
             => ~\E j \in 1..Len(df.rows) :
                   df.rows[j]["betting_house"] = raw.rows[i]["Casa de apostas"]
      /\ Len(df.rows) = Cardinality(ValidRows)
      /\ \A j \in 1..Len(df.rows) : \A m \in MonthSet :
           RankCol(m) \in DOMAIN df.rows[j] /\ df.rows[j][RankCol(m)] >= 1

\* An entity with a missing value in one month is gone from the result.
C5_Witness ==
    /\ phase = "ready"
    /\ \E i \in 1..Len(raw.rows) :
         /\ \E m \in MonthSet : raw.rows[i][RawMonth(m)] = NaN
         /\ raw.rows[i]["Casa de apostas"] \notin Houses(df.rows)
    /\ Len(df.rows) = Len(raw.rows) - 1
    /\ Len(df.rows) >= 1

\* C6 as stated: with a month column absent the call fails with
\* InvalidInputError and returns no table.
C6_FailsWithInvalidInputError ==
    (phase # "loaded" /\ ~MonthsPresent(raw)) =>
      (err = "InvalidInputError" /\ df = EmptyFrame)

\* C6 amended: with a month column absent the call fails with the KeyError
\* of the column selection and returns no table; a table is returned only
\* when the four months are present, and then it has the four rank columns.
C6_FailsWithKeyError ==
    /\ (phase # "loaded" /\ ~MonthsPresent(raw)) =>
         (phase = "failed" /\ err = "KeyError" /\ df = EmptyFrame)
    /\ phase = "ready" =>
         (MonthsPresent(raw) /\ {RankCol(m) : m \in MonthSet} \subseteq df.cols)

\* A table with rows and without one month has made the call fail.
C6_Witness ==
    /\ phase = "failed"
    /\ err = "KeyError"
    /\ Len(raw.rows) >= 2
    /\ "Julho" \notin raw.cols
    /\ df = EmptyFrame

\* C7: the signed rank delta of periods a and b is rank_a - rank_b, positive
\* exactly when the rank number decreased; A (100, 200) and B (200, 100)
\* give A = +1 and B = -1.
C7_SignedDelta ==
    /\ out.op = "calculate_position_variation" =>
         /\ \A i \in 1..Len(out.value.rows) :
              /\ out.value.rows[i]["position_variation"] =
                   out.arg.rows[i]["rank_may"] - out.arg.rows[i]["rank_august"]
              /\ (out.value.rows[i]["position_variation"] > 0)
                   <=> (out.arg.rows[i]["rank_august"] < out.arg.rows[i]["rank_may"])
         /\ (/\ Len(out.arg.rows) = 2
             /\ out.arg.rows[1]["may"] < out.arg.rows[2]["may"]
             /\ out.arg.rows[1]["august"] > out.arg.rows[2]["august"])
              => (/\ out.value.rows[1]["position_variation"] = 1
                  /\ out.value.rows[2]["position_variation"] = -1)
    /\ out.op = "calculate_position_and_visit_variation" =>
         \A i \in 1..Len(out.value.rows) : \A p \in 1..3 :
           out.value.rows[i][PositionVariationCol(p)] =
             out.arg.rows[i][RankCol(months[p])] - out.arg.rows[i][RankCol(months[p + 1])]

\* The example: A below B in May and above B in August.
C7_Witness ==
    /\ out.op = "calculate_position_variation"
    /\ Len(out.arg.rows) = 2
    /\ out.arg.rows[1]["may"] < out.arg.rows[2]["may"]
    /\ out.arg.rows[1]["august"] > out.arg.rows[2]["august"]
    /\ out.value.rows[1]["position_variation"] = 1
    /\ out.value.rows[2]["position_variation"] = -1

\* C8: the classification is total and exclusive: delta > 0 Gained, delta < 0
\* Lost, delta = 0 Maintained, one label per entity of the classified table.
C8_TrendClassification ==
    out.op = "calculate_position_variation" =>
      \A i \in 1..Len(out.value.rows) :
        LET delta == out.value.rows[i]["position_variation"]
            label == out.value.rows[i]["performance"]
        IN  /\ label \in {"Gained", "Lost", "Maintained"}
            /\ (label = "Gained") <=> (delta > 0)
            /\ (label = "Lost") <=> (delta < 0)
            /\ (label = "Maintained") <=> (delta = 0)

\* A classified table that holds the three labels.
C8_Witness ==
    /\ out.op = "calculate_position_variation"
    /\ \A l \in {"Gained", "Lost", "Maintained"} :
         \E i \in 1..Len(out.value.rows) : out.value.rows[i]["performance"] = l

\* C9: both forms of the rank variation of a pair of adjacent months are in
\* the table and agree: the magnitude equals the absolute value of the
\* signed delta.
C9_MagnitudeIsAbsOfSigned ==
    out.op = "calculate_position_and_visit_variation" =>
      \A p \in 1..3 :
        /\ {RankChangeCol(p), PositionVariationCol(p)} \subseteq out.value.cols
        /\ \A i \in 1..Len(out.value.rows) :
             out.value.rows[i][RankChangeCol(p)] =
               Abs(out.value.rows[i][PositionVariationCol(p)])

\* An entity with a negative signed delta and the same magnitude.
C9_Witness ==
    /\ out.op = "calculate_position_and_visit_variation"
    /\ \E i \in 1..Len(out.value.rows) : \E p \in 1..3 :
         /\ out.value.rows[i][PositionVariationCol(p)] < 0
         /\ out.value.rows[i][RankChangeCol(p)] = -out.value.rows[i][PositionVariationCol(p)]

\* The entities of rows with the label l.
Labelled(rows, l) == {rows[i]["betting_house"] : i \in {k \in 1..Len(rows) : rows[k]["performance"] = l}}

\* The delta of entity h in rows.
DeltaOf(rows, h) == rows[PosIn(rows, h)]["position_variation"]

Min(a, b) == IF a < b THEN a ELSE b

\* C10: the gainers returned are the n entities with the largest positive
\* delta and the losers the n with the most negative delta (all of them when
\* fewer than n exist); of entities tied at the cut-off the one that comes
\* first in the table is selected.
C10_TopMoversSelection ==
    out.op = "get_top_movers" =>
      LET gainers == Labelled(out.arg.rows, "Gained")
          losers == Labelled(out.arg.rows, "Lost")
          top_gainers == Labelled(out.value.rows, "Gained")
          top_losers == Labelled(out.value.rows, "Lost")
      IN  /\ top_gainers \subseteq gainers
          /\ top_losers \subseteq losers
          /\ Cardinality(top_gainers) = Min(out.n, Cardinality(gainers))
          /\ Cardinality(top_losers) = Min(out.n, Cardinality(losers))
          /\ \A s \in top_gainers : \A g \in gainers \ top_gainers :
               \/ DeltaOf(out.arg.rows, s) > DeltaOf(out.arg.rows, g)
               \/ /\ DeltaOf(out.arg.rows, s) = DeltaOf(out.arg.rows, g)
                  /\ PosIn(out.arg.rows, s) < PosIn(out.arg.rows, g)
          /\ \A s \in top_losers : \A g \in losers \ top_losers :
               \/ DeltaOf(out.arg.rows, s) < DeltaOf(out.arg.rows, g)
               \/ /\ DeltaOf(out.arg.rows, s) = DeltaOf(out.arg.rows, g)
                  /\ PosIn(out.arg.rows, s) < PosIn(out.arg.rows, g)

\* Two gainers tied at the cut-off of n = 1: the first in the table is taken.
C10_Witness ==
    /\ out.op = "get_top_movers"
    /\ out.n = 1
    /\ \E s \in Labelled(out.value.rows, "Gained") :
         \E g \in Labelled(out.arg.rows, "Gained") \ Labelled(out.value.rows, "Gained") :
           /\ DeltaOf(out.arg.rows, s) = DeltaOf(out.arg.rows, g)
           /\ PosIn(out.arg.rows, s) < PosIn(out.arg.rows, g)

\* C11: get_top_movers returns every Maintained entity of its table, each
\* once, whatever top_n is: also when top_n is 0 and when there are more
\* Maintained entities than top_n.
C11_AllMaintainedReturned ==
    out.op = "get_top_movers" =>
        /\ Labelled(out.value.rows, "Maintained") = Labelled(out.arg.rows, "Maintained")
        /\ Cardinality({k \in 1..Len(out.value.rows) :
                           out.value.rows[k]["performance"] = "Maintained"})
             = Cardinality(Labelled(out.arg.rows, "Maintained"))

\* More Maintained entities than top_n, all of them returned.
C11_Witness ==
    /\ out.op = "get_top_movers"
    /\ Cardinality(Labelled(out.arg.rows, "Maintained")) > out.n
    /\ Cardinality(Labelled(out.value.rows, "Maintained")) > out.n

\* The rank of entity h in the i-th month of the table calculate_drop_and_recovery
\* was given.
RankAt(h, i) == out.arg.rows[PosIn(out.arg.rows, h)][RankCol(months[i])]

\* The improvements of entity h over every pair of months i < j.
Improvements(h) ==
    LET earlier == {q \in (1..Len(months)) \X (1..Len(months)) : q[1] < q[2]}
    IN  {x \in {RankAt(h, q[1]) - RankAt(h, q[2]) : q \in earlier} : x > 0}

\* The rank of h got worse from month i to j and improved from j to k.
DropThenRecovery(h) ==
    \E i, j, k \in 1..Len(months) :
        /\ i < j /\ j < k
        /\ RankAt(h, j) > RankAt(h, i)
        /\ RankAt(h, k) < RankAt(h, j)

\* C12: calculate_drop_and_recovery reports an entity only if its rank got
\* worse between two months i < j and improved in a later month k > j.
C12_ReportedOnlyAfterDrop ==
    out.op = "calculate_drop_and_recovery" =>
        \A h \in Houses(out.value.rows) : DropThenRecovery(h)

\* C13: calculate_drop_and_recovery looks at every pair of months i < j,
\* reports each entity with an improvement at most once, and reports the
\* largest of its improvements.
C13_OncePerEntityLargestRecovery ==
    out.op = "calculate_drop_and_recovery" =>
        /\ \A a, b \in 1..Len(out.value.rows) :
              out.value.rows[a]["betting_house"] = out.value.rows[b]["betting_house"] => a = b
        /\ Houses(out.value.rows) = {h \in Houses(out.arg.rows) : Improvements(h) # {}}
        /\ \A a \in 1..Len(out.value.rows) :
              LET h == out.value.rows[a]["betting_house"]
              IN  \A x \in Improvements(h) : x <= out.value.rows[a]["recovery_amount"]
        /\ \A a \in 1..Len(out.value.rows) :
              out.value.rows[a]["recovery_amount"]
                  \in Improvements(out.value.rows[a]["betting_house"])

\* An entity with ranks 2, 3, 1 in the first three months is reported once
\* with recovery 2, the larger of its improvements 1 and 2.
C13_Witness ==
    /\ out.op = "calculate_drop_and_recovery"
    /\ \E a \in 1..Len(out.value.rows) :
          LET h == out.value.rows[a]["betting_house"]
          IN  /\ RankAt(h, 1) = 2 /\ RankAt(h, 2) = 3 /\ RankAt(h, 3) = 1
              /\ out.value.rows[a]["recovery_amount"] = 2

\* C14: the rows calculate_drop_and_recovery returns are in non-increasing
\* order of recovery_amount.
C14_OrderedByRecovery ==
    out.op = "calculate_drop_and_recovery" =>
        \A a, b \in 1..Len(out.value.rows) :
            a < b => out.value.rows[a]["recovery_amount"] >= out.value.rows[b]["recovery_amount"]

\* Two reported entities, the one later in the table with the larger recovery.
C14_Witness ==
    /\ out.op = "calculate_drop_and_recovery"
    /\ Len(out.value.rows) >= 2
    /\ out.value.rows[1]["recovery_amount"] > out.value.rows[2]["recovery_amount"]
    /\ PosIn(out.arg.rows, out.value.rows[1]["betting_house"])
         > PosIn(out.arg.rows, out.value.rows[2]["betting_house"])

\* The row of entity h in the table identify_sustained_growth_brands was given.
ArgRow(h) == out.arg.rows[PosIn(out.arg.rows, h)]

\* (b - a) / a * 100 > k, for a > 0.
GrowsMoreThan(a, b, k) == (b - a) * 100 > k * a

\* The growth of entity h is above the threshold in one of the two pairs of
\* adjacent months.
ExceedsOnce(h) ==
    \/ GrowsMoreThan(ArgRow(h)["june"], ArgRow(h)["july"], out.n)
    \/ GrowsMoreThan(ArgRow(h)["july"], ArgRow(h)["august"], out.n)

\* The growth of entity h is positive in both pairs of adjacent months.
PositiveThroughout(h) ==
    /\ ArgRow(h)["july"] > ArgRow(h)["june"]
    /\ ArgRow(h)["august"] > ArgRow(h)["july"]

\* C15: every entity identify_sustained_growth_brands returns has a growth
\* above the threshold in at least one pair of adjacent months and a positive
\* growth in every pair; an entity with a spike followed by a month that is
\* not positive is never returned.
C15_ReturnedGrowThroughout ==
    out.op = "identify_sustained_growth_brands" =>
        \A h \in Houses(out.value.rows) : ExceedsOnce(h) /\ PositiveThroughout(h)

\* An entity is returned while another entity of the table is not.
C15_Witness ==
    /\ out.op = "identify_sustained_growth_brands"
    /\ out.value.rows # <<>>
    /\ Houses(out.value.rows) # Houses(out.arg.rows)

IsGrowth(g, start, finish) ==
    /\ g.den > 0
    /\ g.num * start = g.den * (finish - start) * 100

\* C17: for a start value that is not zero, growth is
\* (end - start) / start * 100: growth_percentage from may to august, and
\* each visit variation from one month to the next; from 1 to 2 it is 100,
\* from 2 to 1 it is -50.
C17_GrowthFormula ==
    /\ phase = "ready" =>
          \A r \in 1..Len(df.rows) :
              LET row == df.rows[r]
              IN  /\ IsGrowth(row["growth_percentage"], row["may"], row["august"])
                  /\ row["may"] = 1 /\ row["august"] = 2 =>
                        row["growth_percentage"] = [num |-> 100, den |-> 1]
                  /\ row["may"] = 2 /\ row["august"] = 1 =>
                        row["growth_percentage"] = [num |-> -50, den |-> 1]
    /\ out.op = "calculate_position_and_visit_variation" =>
          \A r \in 1..Len(out.value.rows) : \A i \in 1..(Len(months) - 1) :
              IsGrowth(out.value.rows[r][VisitVariationCol(i)],
                       out.arg.rows[r][months[i]], out.arg.rows[r][months[i + 1]])

\* One entity doubles from may to august, another halves, and the visit
\* variations of both are computed.
C17_Witness ==
    /\ out.op = "calculate_position_and_visit_variation"
    /\ \E a, b \in 1..Len(df.rows) :
          /\ df.rows[a]["may"] = 1 /\ df.rows[a]["august"] = 2
          /\ df.rows[a]["growth_percentage"] = [num |-> 100, den |-> 1]
          /\ df.rows[b]["may"] = 2 /\ df.rows[b]["august"] = 1
          /\ df.rows[b]["growth_percentage"] = [num |-> -50, den |-> 1]
          /\ out.value.rows[a][VisitVariationCol(1)] = [num |-> 100, den |-> 1]

\* C18: no visit variation is computed from a starting count of 0: the
\* entity is left out of the returned table or the call fails, and every
\* visit variation of the returned table is a finite number.
C18_NoValueForZeroStart ==
    out.op = "calculate_position_and_visit_variation" /\ err = "none" =>
        /\ \A r \in 1..Len(out.value.rows) : \A i \in 1..(Len(months) - 1) :
              out.value.rows[r][VisitVariationCol(i)].den # 0
        /\ \A r \in 1..Len(out.arg.rows) :
              (\E i \in 1..(Len(months) - 1) : out.arg.rows[r][months[i]] = 0) =>
                  out.arg.rows[r]["betting_house"] \notin Houses(out.value.rows)

\* The preprocessed table before any call on it.
Pristine == preprocess_dataframe(raw)

\* C20: after any sequence of calls on the same table a call succeeds and
\* returns what it would have returned as the first call on the table; so
\* does a second call of the same operation.
C20_CallsIndependentOfOrder ==
    phase = "ready" /\ out.op # "none" =>
        /\ err = "none"
        /\ out.op = "calculate_position_variation" =>
              out.value = calculate_position_variation(Pristine, RankingColumns(Pristine))
        /\ out.op = "calculate_monthly_variation" =>
              out.value = calculate_monthly_variation(Pristine)
        /\ out.op = "generate_visits_summary" =>
              out.value = generate_visits_summary(Pristine)

\* C21: no operation changes the table it is given: when a call has returned,
\* the table has the columns and the cells it had before the call.
C21_InputTableUnchanged ==
    phase = "ready" /\ out.op \in {"calculate_position_variation",
                                  "calculate_monthly_variation",
                                  "generate_visits_summary"} =>
        df = out.arg

\* The rank of entity h in column c of the preprocessed table.
RankIn(h, c) == df.rows[PosIn(df.rows, h)][c]

\* The column after c in the ranking columns, or "" after the last.
NextColumn(c) ==
    LET cs == RankingColumns(df)
        i == CHOOSE k \in 1..Len(cs) : cs[k] = c
    IN  IF i < Len(cs) THEN cs[i + 1] ELSE ""

\* C22: when no row qualifies as a recovery nothing fails: identify_recoveries
\* and calculate_drop_and_recovery return a table without rows, and
\* plot_recoveries prints that there is nothing to plot and returns.
C22_EmptyResultHandled ==
    /\ out.op = "identify_recoveries" /\ out.arg.rows = <<>> =>
          out.value.rows = <<>> /\ err = "none"
    /\ out.op = "plot_recoveries" /\ out.arg.rows = <<>> =>
          /\ err = "none"
          /\ out.value.printed = "No recoveries to plot."
          /\ out.value.plotted = <<>>
    /\ out.op = "calculate_drop_and_recovery"
       /\ (\A h \in Houses(out.arg.rows) : Improvements(h) = {}) =>
          /\ err = "none"
          /\ out.value.rows = <<>>
          /\ RankCol("may") \in out.value.cols

\* No drop at the default threshold in a table of two entities or more, and
\* plot_recoveries has returned.
C22_Witness ==
    /\ out.op = "plot_recoveries"
    /\ out.n = 3
    /\ Len(df.rows) >= 2
    /\ out.arg.rows = <<>>
    /\ out.value.printed = "No recoveries to plot."

\* C24: every row identify_significant_drops returns is a drop: the rank of
\* the entity in to_month is worse (larger) than in from_month by at least
\* drop_threshold, and no entity whose rank improved is reported.
C24_DropsAreDrops ==
    out.op = "identify_significant_drops" =>
        \A r \in 1..Len(out.value.rows) :
            LET row == out.value.rows[r]
            IN  RankIn(row["betting_house"], row["to_month"])
                  - RankIn(row["betting_house"], row["from_month"]) >= out.n

\* C25: every recovery identify_recoveries reports is of an entity that lost
\* at least drop_threshold positions into drop_month and has a better rank
\* in the month right after; position_recovered is the positive number of
\* positions regained, and the last month is never a drop_month.
C25_RecoveryFollowsDrop ==
    out.op = "identify_recoveries" =>
        \A r \in 1..Len(out.value.rows) :
            LET row == out.value.rows[r]
                h == row["betting_house"]
            IN  /\ \E c \in {RankCol(m) : m \in MonthSet} :
                      /\ NextColumn(c) = row["drop_month"]
                      /\ RankIn(h, row["drop_month"]) - RankIn(h, c) >= out.n
                /\ NextColumn(row["drop_month"]) = row["recovery_month"]
                /\ RankIn(h, row["recovery_month"]) < RankIn(h, row["drop_month"])
                /\ row["position_recovered"] > 0
                /\ row["position_recovered"]
                     = RankIn(h, row["drop_month"]) - RankIn(h, row["recovery_month"])

\* C23: every brand calculate_top_growth_brands and calculate_brands_performance
\* ("growth") return improved continuously: its rank number got worse neither
\* from june to july nor from july to august.
C23_ContinuousImprovement ==
    out.op \in {"calculate_top_growth_brands", "calculate_brands_performance"}
    /\ out.n = "growth" =>
        \A r \in 1..Len(out.value.rows) :
            /\ out.value.rows[r]["rank_july"] <= out.value.rows[r]["rank_june"]
            /\ out.value.rows[r]["rank_august"] <= out.value.rows[r]["rank_july"]

\* The sum of the rank changes of pair i over the table calculate_monthly_variation
\* was given; the pair with the highest mean is the pair with the highest sum.
ChangeSum(i) == SumOf(Column(out.arg.rows, RankChangeCol(i)))

\* The rank change of entity h in pair i.
ChangeOf(h, i) == out.arg.rows[PosIn(out.arg.rows, h)][RankChangeCol(i)]

Met == {i \in 1..Len(out.arg.rows) :
          {out.arg.rows[i]["home_team"], out.arg.rows[i]["away_team"]}
              = {out.n[1], out.n[2]}}

\* The goals of a team in match i.
GoalsOf(i, team) ==
    IF out.arg.rows[i]["home_team"] = team
    THEN out.arg.rows[i]["home_score"] ELSE out.arg.rows[i]["away_score"]

\* The float p is k / n.
IsShare(p, k, n) == p.den > 0 /\ p.num * n = p.den * k

\* C27: when the two teams met at least once, calculate_match_outcomes counts
\* every one of their matches as a win of the first team, a win of the second
\* or a draw, a draw exactly when the scores are equal, and the three shares
\* sum to 1.
C27_OutcomesPartitionMatches ==
    out.op = "calculate_match_outcomes" /\ Met # {} =>
        LET rows == out.value.rows
            first == {i \in Met : GoalsOf(i, out.n[1]) > GoalsOf(i, out.n[2])}
            second == {i \in Met : GoalsOf(i, out.n[2]) > GoalsOf(i, out.n[1])}
            draws == {i \in Met : GoalsOf(i, out.n[1]) = GoalsOf(i, out.n[2])}
            total == Cardinality(Met)
        IN  /\ Len(rows) = 3
            /\ rows[1]["Resultado"] = "Brasil"
            /\ rows[2]["Resultado"] = "Colombia"
            /\ rows[3]["Resultado"] = "Empate"
            /\ IsShare(rows[1]["Percentual"], Cardinality(first), total)
            /\ IsShare(rows[2]["Percentual"], Cardinality(second), total)
            /\ IsShare(rows[3]["Percentual"], Cardinality(draws), total)
            /\ rows[1]["Percentual"].num * rows[2]["Percentual"].den * rows[3]["Percentual"].den
               + rows[2]["Percentual"].num * rows[1]["Percentual"].den * rows[3]["Percentual"].den
               + rows[3]["Percentual"].num * rows[1]["Percentual"].den * rows[2]["Percentual"].den
               = rows[1]["Percentual"].den * rows[2]["Percentual"].den * rows[3]["Percentual"].den

\* The two teams met twice: the first team won away once and drew once.
C27_Witness ==
    /\ out.op = "calculate_match_outcomes"
    /\ Cardinality(Met) = 2
    /\ \E i \in Met : /\ out.arg.rows[i]["away_team"] = out.n[1]
                      /\ GoalsOf(i, out.n[1]) > GoalsOf(i, out.n[2])
    /\ out.value.rows[1]["Percentual"] = [num |-> 1, den |-> 2]
    /\ out.value.rows[3]["Percentual"] = [num |-> 1, den |-> 2]

\* C30: when the filter selects no match, calculate_match_outcomes,
\* calculate_team_performance and calculate_goal_percentage still return a
\* distribution table.
C30_DistributionOnZeroMatches ==
    out.op \in {"calculate_match_outcomes", "calculate_team_performance",
                "calculate_goal_percentage"} =>
        /\ out.value.cols = {"Resultado", "Percentual"}
        /\ out.value.rows # <<>>

\* C28: calculate_drop_and_recovery works for every list of two ranking
\* columns or more: the table it returns has every listed column and the
\* recovery amount.
C28_AnyNumberOfColumns ==
    out.op = "calculate_drop_and_recovery" =>
        /\ "recovery_amount" \in out.value.cols
        /\ \A i \in 1..out.n : RankingColumns(df)[i] \in out.value.cols

\* C29: in the table get_top_position_variations returns every row labelled
\* "negative" has a position change below 0 and every row labelled
\* "positive" one above 0; an entity whose rank did not change is not among
\* the negative variations.
C29_LabelsMatchSign ==
    out.op = "get_top_position_variations" =>
        \A r \in 1..Len(out.value.rows) :
            LET row == out.value.rows[r]
            IN  /\ row["variation_type"] = "negative" => row["position_change"] < 0
                /\ row["variation_type"] = "positive" => row["position_change"] > 0

=============================================================================
